---- MODULE Spec2Model ----
(***************************************************************************)
(* The logbook of qri: a Book of nested operation logs                     *)
(* (author -> name -> branch), the write verbs that append operations,     *)
(* the replay that derives the versions of a dataset, merging of remote    *)
(* logs and the persistence of the book through a filesystem capability.   *)
(*                                                                         *)
(* The semantic layer (package logbook) is translated from                 *)
(* src/cmd/fsi.go.  The oplog package it calls (Log.Append, HeadRef,       *)
(* Book.Log, Log.Merge, Verify) is not part of the sources at hand and is  *)
(* modelled from sections 3, 4.2, 4.3 and 4.6 of the specification.        *)
(***************************************************************************)
EXTENDS Integers, Sequences, FiniteSets, TLC

VARIABLES
    logs,        \* book.bk: the ordered top-level logs of the oplog.Book
    authorID,    \* book.bk: the id of the book's root author log
    fsLocation,  \* book.fsLocation
    fsPath,      \* book.fs: the location holding the most recent blob
    fsBlob,      \* book.fs: the blob stored at fsPath
    last,        \* the most recent call of a public verb and its outcome
    env,         \* the run's environment: whether fs.Put can fail, and the
                 \* number of ops the book is followed up to
    pc,          \* concurrent callers: position of each caller in its verb
    cipher,      \* concurrent callers: the ciphertext each caller computed
    cron,        \* the cron scheduler: its job store and the goroutines it started
    stream       \* p2p: the message streams between this node and its peers

bookVars == <<logs, authorID, fsLocation, fsPath, fsBlob, last, env, pc, cipher>>

vars == <<logs, authorID, fsLocation, fsPath, fsBlob, last, env, pc, cipher, cron,
          stream>>

-----------------------------------------------------------------------------
(* Bounds of the model *)

MaxTime == 1        \* timestamps range over 0..MaxTime
MaxRev == 2         \* revision counts range over 1..MaxRev
MaxBookOps == 5     \* ops held by all the logs of the book, every verb in play
MaxWriteOps == 6    \* the same, when only the write verbs are in play
MaxMergeOps == 6    \* the same, when logs of peers are merged
MaxAllOps == 5      \* the same, when logs are written, merged and removed
MaxPage == 3        \* offsets and limits of Versions range over 0..MaxPage
MaxOpenOps == 5     \* ops held by all the logs, when the book is closed and reopened
MaxRuns == 2        \* goroutines the scheduler has started for one job and not ended
MaxStreams == 2     \* message streams opened between the node and its peers

Times == 0 .. MaxTime
Revs == 1 .. MaxRev

-----------------------------------------------------------------------------
(* Program constants *)

authorModel == 0
nameModel == 1
branchModel == 2
versionModel == 3
publicationModel == 4
aclModel == 5
cronJobModel == 6

OpTypeInit == 1
OpTypeAmend == 2
OpTypeRemove == 3

DefaultBranchName == "main"

\* The identity the book is opened with: NewBook(pk, username, fs, location)
AuthorName == "alice"
KeyID == "keyA"
OtherKeyID == "keyB"

Usernames == {"alice", "bob"}
Names == {"ds1", "ds2"}          \* names a reference may carry
InitNames == {"ds1"}             \* names datasets are created under
NewNames == {"ds2"}              \* names datasets are renamed to
Paths == {"Qa", "Qb"}

-----------------------------------------------------------------------------
(* oplog.Op and oplog.Log *)

Op(type, model, name, author, ts, ref, prev, size, note, relations) ==
    [type |-> type, model |-> model, name |-> name, authorID |-> author,
     timestamp |-> ts, ref |-> ref, prev |-> prev, size |-> size, note |-> note,
     relations |-> relations]

\* oplog.InitLog: a log holding a single op and no children
InitLog(op) == [ops |-> <<op>>, logs |-> <<>>]

\* id(log): the content hash of ops[0]; the hash is injective on the ops of
\* the model, so the first op stands for its hash
LogID(lg) == lg.ops[1]

\* the tag under which an op records a log id as its author
IDTag(id) == IF id.authorID = KeyID THEN "idA" ELSE "idB"

LogModel(lg) == lg.ops[1].model

\* name(log): the most recent name in ops of the log's own model
RECURSIVE NameIn(_, _, _)
NameIn(ops, model, i) ==
    IF i = 0 THEN ""
    ELSE IF ops[i].model = model /\ ops[i].name # "" THEN ops[i].name
    ELSE NameIn(ops, model, i - 1)

LogName(lg) == NameIn(lg.ops, LogModel(lg), Len(lg.ops))

\* Log.Append: the op is accepted when its timestamp is not before the
\* timestamp of the last op, and refused otherwise
AppendOK(lg, op) == op.timestamp >= lg.ops[Len(lg.ops)].timestamp

LogAppend(lg, op) ==
    IF AppendOK(lg, op) THEN [lg EXCEPT !.ops = Append(@, op)] ELSE lg

-----------------------------------------------------------------------------
(* Addressing of logs inside the book *)

\* index of the first log of ls whose name is n, 0 when there is none
FindName(ls, n) ==
    IF \E i \in 1 .. Len(ls) : LogName(ls[i]) = n
    THEN CHOOSE i \in 1 .. Len(ls) :
            /\ LogName(ls[i]) = n
            /\ \A j \in 1 .. (i - 1) : LogName(ls[j]) # n
    ELSE 0

NotFoundPath == <<0>>

\* HeadRef: descend the child logs along names; the result is the path of
\* indices of the log found, or NotFoundPath when a step is unresolved
RECURSIVE HeadRef(_, _)
HeadRef(ls, names) ==
    IF names = <<>> THEN <<>>
    ELSE LET i == FindName(ls, Head(names)) IN
         IF i = 0 THEN NotFoundPath
         ELSE LET rest == HeadRef(ls[i].logs, Tail(names)) IN
              IF rest = NotFoundPath THEN NotFoundPath ELSE <<i>> \o rest

\* the number of ops held by the logs ls and all their descendants
RECURSIVE TotalOps(_)
TotalOps(ls) ==
    IF ls = <<>> THEN 0
    ELSE Len(Head(ls).ops) + TotalOps(Head(ls).logs) + TotalOps(Tail(ls))

Room(ls, k) == TotalOps(ls) + k <= env.cap

RECURSIVE LogAt(_, _)
LogAt(ls, path) ==
    IF Len(path) = 1 THEN ls[path[1]]
    ELSE LogAt(ls[path[1]].logs, Tail(path))

RECURSIVE SetAt(_, _, _)
SetAt(ls, path, lg) ==
    IF Len(path) = 1 THEN [ls EXCEPT ![path[1]] = lg]
    ELSE [ls EXCEPT ![path[1]].logs = SetAt(@, Tail(path), lg)]

\* Book.Log(id): index of the top-level log whose id is id, 0 when none
LogByID(ls, id) ==
    IF \E i \in 1 .. Len(ls) : LogID(ls[i]) = id
    THEN CHOOSE i \in 1 .. Len(ls) :
            /\ LogID(ls[i]) = id
            /\ \A j \in 1 .. (i - 1) : LogID(ls[j]) # id
    ELSE 0

Ref(user, name) == [Username |-> user, Name |-> name]

BranchRef(ls, ref) ==
    IF ref.Username = "" THEN [err |-> "UsernameRequired", path |-> <<>>]
    ELSE IF ref.Name = "" THEN [err |-> "NameRequired", path |-> <<>>]
    ELSE LET p == HeadRef(ls, <<ref.Username, ref.Name, DefaultBranchName>>) IN
         IF p = NotFoundPath THEN [err |-> "ErrNotFound", path |-> <<>>]
         ELSE [err |-> "nil", path |-> p]

readDatasetLog(ls, ref) ==
    IF ref.Username = "" THEN [err |-> "UsernameRequired", path |-> <<>>]
    ELSE IF ref.Name = "" THEN [err |-> "NameRequired", path |-> <<>>]
    ELSE LET p == HeadRef(ls, <<ref.Username, ref.Name>>) IN
         IF p = NotFoundPath THEN [err |-> "ErrNotFound", path |-> <<>>]
         ELSE [err |-> "nil", path |-> p]

authorLog(ls, aid) == LogByID(ls, aid)

\* initName: a name log holding a branch log, appended to the author's log;
\* yields the new logs and the path of the branch
initName(ls, aid, name, t1, t2) ==
    LET branch == InitLog(Op(OpTypeInit, branchModel, DefaultBranchName,
                             IDTag(aid), t2, "", "", 0, "", <<>>))
        dsLog == [ops |-> <<Op(OpTypeInit, nameModel, name, IDTag(aid), t1,
                               "", "", 0, "", <<>>)>>,
                  logs |-> <<branch>>]
        a == authorLog(ls, aid)
    IN  [logs |-> [ls EXCEPT ![a].logs = Append(@, dsLog)],
         path |-> <<a, Len(ls[a].logs) + 1, 1>>]

-----------------------------------------------------------------------------
(* Datasets handed to the version verbs *)

PrevOf(path) == IF path = "Qa" THEN "" ELSE "Qa"
TitleOf(path) == IF path = "Qa" THEN "first" ELSE "second"
LengthOf(path) == IF path = "Qa" THEN 1 ELSE 2

Dataset(user, name, path, ts) ==
    [Peername |-> user, Name |-> name, Path |-> path,
     PreviousPath |-> PrevOf(path),
     Commit |-> [Timestamp |-> ts, Title |-> TitleOf(path)],
     Structure |-> <<[Length |-> LengthOf(path)]>>]

Datasets ==
    { Dataset(u, n, p, t) : u \in Usernames, n \in InitNames, p \in Paths, t \in Times }

Refs == { Ref(u, n) : u \in Usernames, n \in Names }

refFromDataset(ds) == Ref(ds.Peername, ds.Name)

VersionSaveOp(ds) ==
    Op(OpTypeInit, versionModel, "", "", ds.Commit.Timestamp, ds.Path,
       ds.PreviousPath,
       IF ds.Structure # <<>> THEN ds.Structure[1].Length ELSE 0,
       ds.Commit.Title, <<>>)

\* the op written to the slice directly, past Log.Append
appendVersionSaveDirect(lg, ds) == [lg EXCEPT !.ops = Append(@, VersionSaveOp(ds))]

\* appendVersionSave: the outcome of Log.Append is not looked at
appendVersionSave(lg, ds) == LogAppend(lg, VersionSaveOp(ds))

VersionAmendOp(ds) ==
    Op(OpTypeAmend, versionModel, "", "", ds.Commit.Timestamp, ds.Path,
       ds.PreviousPath, 0, ds.Commit.Title, <<>>)

VersionDeleteOp(revisions) ==
    Op(OpTypeRemove, versionModel, "", "", 0, "", "", revisions, "", <<>>)

Destinations == <<"registry">>

PublishOp(revisions, destinations) ==
    Op(OpTypeInit, publicationModel, "", "", 0, "", "", revisions, "", destinations)

UnpublishOp(revisions, destinations) ==
    Op(OpTypeRemove, publicationModel, "", "", 0, "", "", revisions, "", destinations)

CronJobRanOp(number) ==
    Op(OpTypeInit, cronJobModel, "", "", 0, "", "", number, "", <<>>)

NameAmendOp(newName, t) ==
    Op(OpTypeAmend, nameModel, newName, "", t, "", "", 0, "", <<>>)

-----------------------------------------------------------------------------
(* Persistence: Book.save through the filesystem capability *)

NoBlob == [key |-> "", authorID |-> "", logs |-> <<>>]

\* FlatbufferCipher: the book's logs, encrypted under the author's key; the
\* author's id is the init op that carries the id of that key
FlatbufferCipher(ls, aid) == [key |-> aid.authorID, authorID |-> aid, logs |-> ls]

\* fs.Put on a content-addressed store: the location is a digest of the blob
PutLocation(blob) == IF TotalOps(blob.logs) % 2 = 0 THEN "loc1" ELSE "loc2"

\* fs.Get at a location: the blob put there most recently, if any
FsGet(path, blob, loc) == IF loc # "" /\ loc = path THEN blob ELSE NoBlob

NoRef == Ref("", "")

\* the outcome of one call of a public verb
NoLog == [ops |-> <<>>, logs |-> <<>>]

Call(verb, err, ref, path, app, created) ==
    [verb |-> verb, err |-> err, user |-> ref.Username, name |-> ref.Name,
     path |-> path, app |-> app, created |-> created, lg |-> NoLog,
     sender |-> "", signed |-> TRUE]

AppOutcome(lg, op) == IF AppendOK(lg, op) THEN "accepted" ELSE "refused"

\* a verb that returns an error before touching the book
Refuse(verb, err) ==
    /\ last' = Call(verb, err, NoRef, "", "none", FALSE)
    /\ UNCHANGED <<logs, authorID, fsLocation, fsPath, fsBlob, env, cron, stream, pc, cipher>>

\* save: fs.Put stores the ciphertext and yields the location, which replaces
\* book.fsLocation whatever the outcome; the verb returns Put's error
save(ls, call) ==
    \/ LET ciphertext == FlatbufferCipher(ls, authorID) IN
          /\ fsBlob' = ciphertext
          /\ fsPath' = PutLocation(ciphertext)
          /\ fsLocation' = PutLocation(ciphertext)
          /\ last' = [call EXCEPT !.err = "nil"]
    \/ /\ env.faulty
       /\ UNCHANGED <<fsBlob, fsPath>>
       /\ fsLocation' = ""
       /\ last' = [call EXCEPT !.err = "PutError"]

-----------------------------------------------------------------------------
(* The cron scheduler and the p2p streams before anything has used them *)

JobNames == {"job1", "job2"}

\* the name of a Job no field of which was set
NoName == ""

StoredNames == JobNames \cup {NoName}

StatusOK == "200 OK"
StatusBadRequest == "400 Bad Request"
StatusInternalServerError == "500 Internal Server Error"

\* the request the handlers of newCronRoutes served last and its answer; turn
\* changes with every request served
NoRequest == [method |-> "", decoded |-> TRUE, status |-> "", turn |-> FALSE]

\* NewCron: a store holding no job, no goroutine started
NewCron ==
    [store |-> {}, pending |-> [j \in StoredNames |-> 0],
     running |-> [j \in StoredNames |-> 0], unscheduled |-> {},
     http |-> NoRequest]

Streams == 1 .. MaxStreams

NoStream ==
    [by |-> "none", sender |-> "idle", handler |-> "none", wire |-> <<>>,
     back |-> <<>>, res |-> "", err |-> ""]

-----------------------------------------------------------------------------
(* The state after NewBook on a filesystem holding nothing *)

\* NewBook: load finds nothing at the location, initialize writes the author's
\* log of user actions and saves the book; the clock reads 0
NewBook(e) ==
    \E t \in {0} :
        LET userActions == InitLog(Op(OpTypeInit, authorModel, AuthorName, KeyID,
                                      t, "", "", 0, "", <<>>))
            ciphertext == FlatbufferCipher(<<userActions>>, LogID(userActions))
        IN  /\ logs = <<userActions>>
            /\ authorID = LogID(userActions)
            /\ fsBlob = ciphertext
            /\ fsPath = PutLocation(ciphertext)
            /\ fsLocation = PutLocation(ciphertext)
            /\ last = Call("NewBook", "nil", NoRef, "", "none", FALSE)
            /\ env = e
            /\ pc = [p \in {1, 2} |-> "idle"]
            /\ cipher = [p \in {1, 2} |-> NoBlob]
            /\ cron = NewCron
            /\ stream = [s \in Streams |-> NoStream]

Init == NewBook([faulty |-> TRUE, cap |-> MaxBookOps])

WriteInit == NewBook([faulty |-> FALSE, cap |-> MaxWriteOps])

-----------------------------------------------------------------------------
(* The write verbs *)

WriteNameInit(name, t1, t2) ==
    /\ Room(logs, 2)
    /\ t1 <= t2      \* two readings of the clock in a row
    /\ LET r == initName(logs, authorID, name, t1, t2) IN
        /\ logs' = r.logs
        /\ save(r.logs, Call("WriteNameInit", "nil", Ref(AuthorName, name), "",
                             "none", TRUE))
    /\ UNCHANGED <<authorID, env, cron, stream, pc, cipher>>

WriteNameAmend(ref, newName, t) ==
    LET l == readDatasetLog(logs, ref) IN
    IF l.err # "nil"
    THEN Refuse("WriteNameAmend", l.err)
    ELSE LET lg == LogAt(logs, l.path)
             op == NameAmendOp(newName, t)
         IN  /\ Room(logs, 1)
             /\ logs' = SetAt(logs, l.path, LogAppend(lg, op))
             /\ last' = Call("WriteNameAmend", "nil", ref, newName,
                             AppOutcome(lg, op), FALSE)
             /\ UNCHANGED <<authorID, fsLocation, fsPath, fsBlob, env, cron, stream, pc, cipher>>

WriteVersionSave(ds, t1, t2) ==
    LET ref == refFromDataset(ds)
        found == BranchRef(logs, ref)
    IN  IF found.err # "nil" /\ found.err # "ErrNotFound"
        THEN Refuse("WriteVersionSave", found.err)
        ELSE LET created == found.err = "ErrNotFound"
                 r == IF created
                      THEN initName(logs, authorID, ref.Name, t1, t2)
                      ELSE [logs |-> logs, path |-> found.path]
                 branchLog == LogAt(r.logs, r.path)
                 ls == SetAt(r.logs, r.path, appendVersionSave(branchLog, ds))
             IN  /\ Room(logs, IF created THEN 3 ELSE 1)
                 /\ created => t1 <= t2      \* two readings of the clock in a row
                 /\ ~created => (t1 = 0 /\ t2 = 0)   \* the clock is not read
                 /\ logs' = ls
                 /\ save(ls, Call("WriteVersionSave", "nil", ref, ds.Path,
                                  AppOutcome(branchLog, VersionSaveOp(ds)), created))
                 /\ UNCHANGED <<authorID, env, cron, stream, pc, cipher>>

\* the body shared by the verbs that resolve the branch, append one op and save
BranchWrite(verb, ref, op, path) ==
    LET l == BranchRef(logs, ref) IN
    IF l.err # "nil"
    THEN Refuse(verb, l.err)
    ELSE LET lg == LogAt(logs, l.path)
             ls == SetAt(logs, l.path, LogAppend(lg, op))
         IN  /\ Room(logs, 1)
             /\ logs' = ls
             /\ save(ls, Call(verb, "nil", ref, path, AppOutcome(lg, op), FALSE))
             /\ UNCHANGED <<authorID, env, cron, stream, pc, cipher>>

WriteVersionAmend(ds) ==
    BranchWrite("WriteVersionAmend", refFromDataset(ds), VersionAmendOp(ds),
                ds.Path)

WriteVersionDelete(ref, revisions) ==
    BranchWrite("WriteVersionDelete", ref, VersionDeleteOp(revisions), "")

WritePublish(ref, revisions, destinations) ==
    BranchWrite("WritePublish", ref, PublishOp(revisions, destinations), "")

WriteUnpublish(ref, revisions, destinations) ==
    BranchWrite("WriteUnpublish", ref, UnpublishOp(revisions, destinations), "")

WriteCronJobRan(number, ref) ==
    BranchWrite("WriteCronJobRan", ref, CronJobRanOp(number), "")

Next ==
    \/ \E n \in InitNames, t1, t2 \in Times : WriteNameInit(n, t1, t2)
    \/ \E r \in Refs, n \in NewNames, t \in Times : WriteNameAmend(r, n, t)
    \/ \E ds \in Datasets, t1, t2 \in Times : WriteVersionSave(ds, t1, t2)
    \/ \E ds \in Datasets : WriteVersionAmend(ds)
    \/ \E r \in Refs, n \in Revs : WriteVersionDelete(r, n)
    \/ \E r \in Refs, n \in Revs : WritePublish(r, n, Destinations)
    \/ \E r \in Refs, n \in Revs : WriteUnpublish(r, n, Destinations)
    \/ \E r \in Refs : WriteCronJobRan(1, r)

Spec == Init /\ [][Next]_vars

\* the write verbs alone, on references of the author's own namespace, over a
\* filesystem that does not fail
OwnRefs == { Ref(AuthorName, n) : n \in InitNames }
OwnDatasets == { ds \in Datasets : ds.Peername = AuthorName }

WriteNext ==
    \/ \E n \in InitNames, t1, t2 \in Times : WriteNameInit(n, t1, t2)
    \/ \E ds \in Datasets, t1, t2 \in Times : WriteVersionSave(ds, t1, t2)
    \/ \E ds \in OwnDatasets : WriteVersionAmend(ds)
    \/ \E r \in OwnRefs, n \in Revs : WriteVersionDelete(r, n)
    \/ \E r \in OwnRefs, n \in Revs : WritePublish(r, n, Destinations)
    \/ \E r \in OwnRefs, n \in Revs : WriteUnpublish(r, n, Destinations)
    \/ \E r \in OwnRefs : WriteCronJobRan(1, r)

WriteSpec == WriteInit /\ [][WriteNext]_vars

-----------------------------------------------------------------------------
(* Merging the logs of peers *)

IsPrefix(a, b) == Len(a) <= Len(b) /\ SubSeq(b, 1, Len(a)) = a

\* index of the log of ls whose id is id, 0 when there is none
ChildByID(ls, id) ==
    IF \E i \in 1 .. Len(ls) : LogID(ls[i]) = id
    THEN CHOOSE i \in 1 .. Len(ls) :
            /\ LogID(ls[i]) = id
            /\ \A j \in 1 .. (i - 1) : LogID(ls[j]) # id
    ELSE 0

\* Log.Merge: a remote shorter than the local log is too short, a remote that
\* differs inside the common prefix is divergent; otherwise the ops beyond the
\* local ones are appended and the remote children are merged by id, a child
\* with no local counterpart being spliced in.  A failure changes nothing.
RECURSIVE Merge(_, _)
RECURSIVE MergeChildren(_, _, _)
MergeChildren(local, remote, k) ==
    IF k > Len(remote) THEN [err |-> "nil", logs |-> local]
    ELSE LET i == ChildByID(local, LogID(remote[k])) IN
         IF i = 0 THEN MergeChildren(Append(local, remote[k]), remote, k + 1)
         ELSE LET m == Merge(local[i], remote[k]) IN
              IF m.err # "nil" THEN [err |-> m.err, logs |-> local]
              ELSE MergeChildren([local EXCEPT ![i] = m.lg], remote, k + 1)

Merge(l, r) ==
    IF Len(r.ops) < Len(l.ops) THEN [err |-> "ErrLogTooShort", lg |-> l]
    ELSE IF ~IsPrefix(l.ops, r.ops) THEN [err |-> "DivergentHistory", lg |-> l]
    ELSE LET kids == MergeChildren(l.logs, r.logs, 1) IN
         IF kids.err # "nil" THEN [err |-> kids.err, lg |-> l]
         ELSE [err |-> "nil",
               lg |-> [ops |-> l.ops \o SubSeq(r.ops, Len(l.ops) + 1, Len(r.ops)),
                       logs |-> kids.logs]]

\* Log.Verify: the signature of a remote log checks against the key that made it
Verify(remote, pub) == remote.signer = pub

\* the call of MergeLog as its caller sees it: the log handed in, and whether
\* its signature checks against the sender's key
MergeCall(sender, remote, err) ==
    [Call("MergeLog", err, NoRef, "", "none", FALSE)
        EXCEPT !.lg = remote.lg, !.signed = Verify(remote, sender.pub)]

\* the found log left as it is, whatever the remote carries
KeepLocal(sender, remote) ==
    /\ Verify(remote, sender.pub)
    /\ Room(logs, TotalOps(<<remote.lg>>))
    /\ UNCHANGED logs
    /\ save(logs, MergeCall(sender, remote, "nil"))
    /\ UNCHANGED <<authorID, env, cron, stream, pc, cipher>>

\* the remote merged whether or not its signature verifies
MergeUnverified(sender, remote) ==
    LET i == LogByID(logs, LogID(remote.lg))
        ls == IF i = 0 THEN Append(logs, remote.lg)
              ELSE [logs EXCEPT ![i] = Merge(logs[i], remote.lg).lg]
    IN  /\ Room(logs, TotalOps(<<remote.lg>>))
        /\ logs' = ls
        /\ save(ls, MergeCall(sender, remote, "nil"))
        /\ UNCHANGED <<authorID, env, cron, stream, pc, cipher>>

\* the ops of the remote added to the found log, those it holds already included
MergeReplayed(sender, remote) ==
    LET i == LogByID(logs, LogID(remote.lg))
        ls == IF i = 0 THEN Append(logs, remote.lg)
              ELSE [logs EXCEPT ![i].ops = @ \o Tail(remote.lg.ops)]
    IN  /\ Verify(remote, sender.pub)
        /\ Room(logs, TotalOps(<<remote.lg>>))
        /\ logs' = ls
        /\ save(ls, MergeCall(sender, remote, "nil"))
        /\ UNCHANGED <<authorID, env, cron, stream, pc, cipher>>

\* the remote added as a new top-level log without looking for its id
AppendAlways(sender, remote) ==
    /\ Verify(remote, sender.pub)
    /\ Room(logs, TotalOps(<<remote.lg>>))
    /\ logs' = Append(logs, remote.lg)
    /\ save(Append(logs, remote.lg), MergeCall(sender, remote, "nil"))
    /\ UNCHANGED <<authorID, env, cron, stream, pc, cipher>>

\* MergeLog: the outcome of Log.Merge is not looked at
MergeLog(sender, remote) ==
    IF ~Verify(remote, sender.pub)
    THEN /\ last' = MergeCall(sender, remote, "SignatureInvalid")
         /\ UNCHANGED <<logs, authorID, fsLocation, fsPath, fsBlob, env, cron, stream, pc, cipher>>
    ELSE LET i == LogByID(logs, LogID(remote.lg))
             ls == IF i = 0 THEN Append(logs, remote.lg)
                   ELSE [logs EXCEPT ![i] = Merge(logs[i], remote.lg).lg]
         IN  /\ Room(logs, TotalOps(<<remote.lg>>))
             /\ logs' = ls
             /\ save(ls, MergeCall(sender, remote, "nil"))
             /\ UNCHANGED <<authorID, env, cron, stream, pc, cipher>>

\* The logs peers send: copies of the author's own log carrying further ops
\* and possibly a dataset, and the log of another author
InitA == Op(OpTypeInit, authorModel, AuthorName, KeyID, 0, "", "", 0, "", <<>>)
InitB == Op(OpTypeInit, authorModel, "bob", OtherKeyID, 0, "", "", 0, "", <<>>)

Rename(name, t) == Op(OpTypeAmend, authorModel, name, KeyID, t, "", "", 0, "", <<>>)

RemoteTails ==
    { <<>>, <<Rename("alice2", 0)>>, <<Rename("alice2", 0), Rename("alice", 1)>>,
      <<Rename("alice3", 0)>> }

RemoteDataset ==
    [ops |-> <<Op(OpTypeInit, nameModel, "ds1", "idA", 0, "", "", 0, "", <<>>)>>,
     logs |-> << [ops |-> <<Op(OpTypeInit, branchModel, DefaultBranchName, "idA",
                               0, "", "", 0, "", <<>>),
                            VersionSaveOp(Dataset(AuthorName, "ds1", "Qa", 0))>>,
                  logs |-> <<>>] >>]

RemoteLogs ==
    { [ops |-> <<InitA>> \o tail, logs |-> kids] :
        tail \in RemoteTails, kids \in {<<>>, <<RemoteDataset>>} }
    \cup { InitLog(InitB) }

Remotes == { [lg |-> lg, signer |-> k] : lg \in RemoteLogs, k \in {KeyID, OtherKeyID} }

Senders == { [id |-> InitA, pub |-> KeyID], [id |-> InitB, pub |-> OtherKeyID] }

MergeInit == NewBook([faulty |-> FALSE, cap |-> MaxMergeOps])

MergeNext ==
    \/ \E s \in Senders, r \in Remotes : MergeLog(s, r)
    \/ \E ds \in OwnDatasets, t1, t2 \in Times : WriteVersionSave(ds, t1, t2)

MergeSpec == MergeInit /\ [][MergeNext]_vars

-----------------------------------------------------------------------------
(* Removing a dataset's log *)

dsRefToLogPath(ref) == <<ref.Username, ref.Name>>

\* Book.RemoveLog(names...): the first log named by the last name is taken
\* out of the children of the log the names before it lead to
RECURSIVE BookRemoveLog(_, _)
BookRemoveLog(ls, names) ==
    LET i == FindName(ls, Head(names)) IN
    IF i = 0 THEN ls
    ELSE IF Len(names) = 1
    THEN SubSeq(ls, 1, i - 1) \o SubSeq(ls, i + 1, Len(ls))
    ELSE [ls EXCEPT ![i].logs = BookRemoveLog(@, Tail(names))]

NotOwner == "authors can only remove logs they own"

RemoveCall(sender, ref, err) ==
    [Call("RemoveLog", err, ref, "", "none", FALSE) EXCEPT !.sender = IDTag(sender.id)]

\* the log removed whoever asks
RemoveForAnySender(sender, ref) ==
    LET l == BranchRef(logs, ref)
        ls == BookRemoveLog(logs, dsRefToLogPath(ref))
    IN  /\ l.err = "nil"
        /\ logs' = ls
        /\ save(ls, RemoveCall(sender, ref, "nil"))
        /\ UNCHANGED <<authorID, env, cron, stream, pc, cipher>>

\* RemoveLog: root is the top-level log the branch descends from
RemoveLog(sender, ref) ==
    LET l == BranchRef(logs, ref) IN
    IF l.err # "nil"
    THEN Refuse("RemoveLog", l.err)
    ELSE LET root == logs[l.path[1]] IN
         IF LogID(root) # sender.id
         THEN /\ last' = RemoveCall(sender, ref, NotOwner)
              /\ UNCHANGED <<logs, authorID, fsLocation, fsPath, fsBlob, env, cron, stream, pc,
                             cipher>>
         ELSE LET ls == BookRemoveLog(logs, dsRefToLogPath(ref)) IN
              /\ logs' = ls
              /\ save(ls, RemoveCall(sender, ref, "nil"))
              /\ UNCHANGED <<authorID, env, cron, stream, pc, cipher>>

-----------------------------------------------------------------------------
(* Constructing a dataset's log from its history *)

\* histories handed to ConstructDatasetLog, oldest commit first
Histories ==
    { <<>>,
      <<Dataset(AuthorName, "ds1", "Qa", 0)>>,
      <<Dataset(AuthorName, "ds1", "Qa", 0), Dataset(AuthorName, "ds1", "Qb", MaxTime)>>,
      <<Dataset(AuthorName, "ds1", "Qa", MaxTime), Dataset(AuthorName, "ds1", "Qb", 0)>> }

\* for _, ds := range history { book.appendVersionSave(branchLog, ds) }
RECURSIVE AppendHistory(_, _)
AppendHistory(lg, history) ==
    IF history = <<>> THEN lg
    ELSE AppendHistory(appendVersionSave(lg, Head(history)), Tail(history))

\* the log built whether or not the branch is there already
ConstructOver(ref, history, t1, t2) ==
    LET r == initName(logs, authorID, ref.Name, t1, t2)
        ls == SetAt(r.logs, r.path, AppendHistory(LogAt(r.logs, r.path), history))
    IN  /\ Room(logs, 2 + Len(history))
        /\ t1 <= t2
        /\ logs' = ls
        /\ save(ls, Call("ConstructDatasetLog", "nil", ref, "", "none", TRUE))
        /\ UNCHANGED <<authorID, env, cron, stream, pc, cipher>>

\* ConstructDatasetLog: any error of BranchRef, not only not-found, leads to
\* initName under the author's log
ConstructDatasetLog(ref, history, t1, t2) ==
    IF BranchRef(logs, ref).err = "nil"
    THEN /\ last' = Call("ConstructDatasetLog", "ErrLogTooShort", ref, "", "none",
                         FALSE)
         /\ UNCHANGED <<logs, authorID, fsLocation, fsPath, fsBlob, env, cron, stream, pc, cipher>>
    ELSE LET r == initName(logs, authorID, ref.Name, t1, t2)
             ls == SetAt(r.logs, r.path,
                         AppendHistory(LogAt(r.logs, r.path), history))
         IN  /\ Room(logs, 2 + Len(history))
             /\ t1 <= t2      \* two readings of the clock in a row
             /\ logs' = ls
             /\ save(ls, Call("ConstructDatasetLog", "nil", ref, "", "none", TRUE))
             /\ UNCHANGED <<authorID, env, cron, stream, pc, cipher>>

\* every verb that changes the logs of the book, over a filesystem that does
\* not fail
AllInit == NewBook([faulty |-> FALSE, cap |-> MaxAllOps])

AllNext ==
    \/ \E n \in InitNames, t1, t2 \in Times : WriteNameInit(n, t1, t2)
    \/ \E r \in OwnRefs, n \in NewNames, t \in Times : WriteNameAmend(r, n, t)
    \/ \E ds \in OwnDatasets, t1, t2 \in Times : WriteVersionSave(ds, t1, t2)
    \/ \E ds \in OwnDatasets : WriteVersionAmend(ds)
    \/ \E r \in OwnRefs, n \in Revs : WriteVersionDelete(r, n)
    \/ \E r \in OwnRefs, n \in Revs : WritePublish(r, n, Destinations)
    \/ \E r \in OwnRefs, n \in Revs : WriteUnpublish(r, n, Destinations)
    \/ \E r \in OwnRefs : WriteCronJobRan(1, r)
    \/ \E s \in Senders, r \in Remotes : MergeLog(s, r)
    \/ \E s \in Senders, r \in OwnRefs : RemoveLog(s, r)
    \/ \E r \in OwnRefs, h \in Histories, t1, t2 \in Times :
          ConstructDatasetLog(r, h, t1, t2)

AllSpec == AllInit /\ [][AllNext]_vars

-----------------------------------------------------------------------------
(* Two callers on one Book.  Book holds no lock (its fields are bk, pk,      *)
(* fsLocation and fs), so the steps of two verbs interleave: the mutation of *)
(* the logs in memory, the serialisation in save, and fs.Put with the        *)
(* assignment of fsLocation.  Each caller makes one call.                    *)

Callers == {1, 2}

ConcInit == NewBook([faulty |-> FALSE, cap |-> MaxBookOps])

\* WriteNameInit up to the call of save: initName has changed the logs
ConcNameInit(p, name, t1, t2) ==
    /\ pc[p] = "idle"
    /\ Room(logs, 2)
    /\ t1 <= t2
    /\ logs' = initName(logs, authorID, name, t1, t2).logs
    /\ pc' = [pc EXCEPT ![p] = "mutated"]
    /\ UNCHANGED <<authorID, fsLocation, fsPath, fsBlob, last, env, cron, stream, cipher>>

\* WriteVersionSave up to the call of save
ConcVersionSave(p, ds, t1, t2) ==
    LET ref == refFromDataset(ds)
        found == BranchRef(logs, ref)
        created == found.err = "ErrNotFound"
        r == IF created THEN initName(logs, authorID, ref.Name, t1, t2)
             ELSE [logs |-> logs, path |-> found.path]
    IN  /\ pc[p] = "idle"
        /\ found.err \in {"nil", "ErrNotFound"}
        /\ Room(logs, IF created THEN 3 ELSE 1)
        /\ created => t1 <= t2
        /\ ~created => (t1 = 0 /\ t2 = 0)
        /\ logs' = SetAt(r.logs, r.path, appendVersionSave(LogAt(r.logs, r.path), ds))
        /\ pc' = [pc EXCEPT ![p] = "mutated"]
        /\ UNCHANGED <<authorID, fsLocation, fsPath, fsBlob, last, env, cron, stream, cipher>>

\* save, first statement: ciphertext, err := book.bk.FlatbufferCipher()
ConcCipher(p) ==
    /\ pc[p] = "mutated"
    /\ cipher' = [cipher EXCEPT ![p] = FlatbufferCipher(logs, authorID)]
    /\ pc' = [pc EXCEPT ![p] = "ciphered"]
    /\ UNCHANGED <<logs, authorID, fsLocation, fsPath, fsBlob, last, env, cron, stream>>

\* save, last statement: book.fsLocation, err = book.fs.Put(ctx, file)
ConcPut(p) ==
    /\ pc[p] = "ciphered"
    /\ fsBlob' = cipher[p]
    /\ fsPath' = PutLocation(cipher[p])
    /\ fsLocation' = PutLocation(cipher[p])
    /\ pc' = [pc EXCEPT ![p] = "done"]
    /\ last' = Call("save", "nil", NoRef, "", "none", FALSE)
    /\ UNCHANGED <<logs, authorID, env, cron, stream, cipher>>

ConcNext ==
    \/ \E p \in Callers, n \in InitNames, t1, t2 \in Times : ConcNameInit(p, n, t1, t2)
    \/ \E p \in Callers, ds \in OwnDatasets, t1, t2 \in Times :
          ConcVersionSave(p, ds, t1, t2)
    \/ \E p \in Callers : ConcCipher(p)
    \/ \E p \in Callers : ConcPut(p)

ConcSpec == ConcInit /\ [][ConcNext]_vars

-----------------------------------------------------------------------------
(* Versions: the replay of a branch log *)

infoFromOp(ref, op) ==
    [Ref |-> [Username |-> ref.Username, Name |-> ref.Name, Path |-> op.ref],
     Published |-> FALSE,
     Timestamp |-> op.timestamp,
     CommitTitle |-> op.note,
     Size |-> op.size]

\* the flag set on every entry instead of the last size entries
SetPublishedAll(refs, size, flag) ==
    [k \in 1 .. Len(refs) |-> [refs[k] EXCEPT !.Published = flag]]

\* for i := 1; i <= size; i++ { refs[len(refs)-i].Published = flag }
SetPublished(refs, size, flag) ==
    [k \in 1 .. Len(refs) |->
        IF k > Len(refs) - size THEN [refs[k] EXCEPT !.Published = flag]
        ELSE refs[k]]

Panic == [panic |-> TRUE, refs |-> <<>>]

\* the loop over l.Ops from position i on; indexing or slicing the slice refs
\* outside its bounds ends the call in a runtime panic.  Sizes are never
\* negative in the model.
RECURSIVE ReplayOps(_, _, _, _)
ReplayOps(ref, ops, i, refs) ==
    IF i > Len(ops) THEN [panic |-> FALSE, refs |-> refs]
    ELSE LET op == ops[i] IN
         IF op.model = versionModel
         THEN IF op.type = OpTypeInit
              THEN ReplayOps(ref, ops, i + 1, Append(refs, infoFromOp(ref, op)))
              ELSE IF op.type = OpTypeAmend
              THEN IF Len(refs) = 0 THEN Panic
                   ELSE ReplayOps(ref, ops, i + 1,
                                  [refs EXCEPT ![Len(refs)] = infoFromOp(ref, op)])
              ELSE IF op.type = OpTypeRemove
              THEN IF op.size > Len(refs) THEN Panic
                   ELSE ReplayOps(ref, ops, i + 1,
                                  SubSeq(refs, 1, Len(refs) - op.size))
              ELSE ReplayOps(ref, ops, i + 1, refs)
         ELSE IF op.model = publicationModel
         THEN IF op.type = OpTypeInit
              THEN IF op.size > Len(refs) THEN Panic
                   ELSE ReplayOps(ref, ops, i + 1, SetPublished(refs, op.size, TRUE))
              ELSE IF op.type = OpTypeRemove
              THEN IF op.size > Len(refs) THEN Panic
                   ELSE ReplayOps(ref, ops, i + 1, SetPublished(refs, op.size, FALSE))
              ELSE ReplayOps(ref, ops, i + 1, refs)
         ELSE ReplayOps(ref, ops, i + 1, refs)

\* for i := len(refs)/2 - 1; i >= 0; i-- { swap refs[i], refs[len(refs)-1-i] }
RECURSIVE ReverseFrom(_, _)
ReverseFrom(refs, i) ==
    IF i < 0 THEN refs
    ELSE LET opp == Len(refs) - 1 - i IN
         ReverseFrom([refs EXCEPT ![i + 1] = refs[opp + 1],
                                  ![opp + 1] = refs[i + 1]], i - 1)

ReverseSlice(refs) == ReverseFrom(refs, (Len(refs) \div 2) - 1)

\* the offset used as it comes: beyond the length it is out of the slice's range
VersionsUnclamped(ls, ref, offset, limit) ==
    LET l == BranchRef(ls, ref) IN
    IF l.err # "nil" THEN [status |-> "error", err |-> l.err, refs |-> <<>>]
    ELSE LET played == ReplayOps(ref, LogAt(ls, l.path).ops, 1, <<>>) IN
         IF played.panic THEN [status |-> "panic", err |-> "", refs |-> <<>>]
         ELSE LET rev == ReverseSlice(played.refs) IN
              IF offset < 0 \/ offset > Len(rev)
              THEN [status |-> "panic", err |-> "", refs |-> <<>>]
              ELSE LET rest == SubSeq(rev, offset + 1, Len(rev)) IN
                   IF limit < Len(rest)
                   THEN IF limit < 0
                        THEN [status |-> "panic", err |-> "", refs |-> <<>>]
                        ELSE [status |-> "ok", err |-> "nil",
                              refs |-> SubSeq(rest, 1, limit)]
                   ELSE [status |-> "ok", err |-> "nil", refs |-> rest]

\* the entries from offset on, however many the limit allows
VersionsUnlimited(ls, ref, offset, limit) ==
    LET l == BranchRef(ls, ref) IN
    IF l.err # "nil" THEN [status |-> "error", err |-> l.err, refs |-> <<>>]
    ELSE LET played == ReplayOps(ref, LogAt(ls, l.path).ops, 1, <<>>) IN
         IF played.panic THEN [status |-> "panic", err |-> "", refs |-> <<>>]
         ELSE LET rev == ReverseSlice(played.refs)
                  off == IF offset > Len(rev) THEN Len(rev) ELSE offset
              IN  [status |-> "ok", err |-> "nil",
                   refs |-> SubSeq(rev, off + 1, Len(rev))]

\* Versions(ref, offset, limit): status "ok" with the entries, "error" with the
\* error of BranchRef, or "panic"
Versions(ls, ref, offset, limit) ==
    LET l == BranchRef(ls, ref) IN
    IF l.err # "nil" THEN [status |-> "error", err |-> l.err, refs |-> <<>>]
    ELSE LET played == ReplayOps(ref, LogAt(ls, l.path).ops, 1, <<>>) IN
         IF played.panic THEN [status |-> "panic", err |-> "", refs |-> <<>>]
         ELSE LET rev == ReverseSlice(played.refs)
                  off == IF offset > Len(rev) THEN Len(rev) ELSE offset
              IN  IF off < 0 THEN [status |-> "panic", err |-> "", refs |-> <<>>]
                  ELSE LET rest == SubSeq(rev, off + 1, Len(rev)) IN
                       IF limit < Len(rest)
                       THEN IF limit < 0
                            THEN [status |-> "panic", err |-> "", refs |-> <<>>]
                            ELSE [status |-> "ok", err |-> "nil",
                                  refs |-> SubSeq(rest, 1, limit)]
                       ELSE [status |-> "ok", err |-> "nil", refs |-> rest]

-----------------------------------------------------------------------------
(* LogEntries: the line-by-line account of a branch log *)

actionStrings(model) ==
    CASE model = authorModel -> <<"create profile", "update profile", "delete profile">>
      [] model = nameModel -> <<"init dataset", "rename dataset", "delete dataset">>
      [] model = branchModel -> <<"init branch", "rename branch", "delete branch">>
      [] model = versionModel -> <<"save commit", "amend commit", "remove commit">>
      [] model = publicationModel -> <<"publish", "", "unpublish">>
      [] model = aclModel -> <<"update access", "update access", "remove all access">>
      [] model = cronJobModel -> <<"ran update", "", "">>
      [] OTHER -> <<"", "", "">>

\* Action: actionStrings[op.Model][int(op.Type)-1]; op types start at 1
logEntryFromOp(author, op) ==
    [Timestamp |-> op.timestamp,
     Author |-> author,
     Action |-> actionStrings(op.model)[op.type],
     Note |-> IF op.note = "" /\ op.name # "" THEN op.name ELSE op.note]

\* the loop over l.Ops from position i on: an op is skipped while offset is
\* above 0, and the loop ends when the entries number exactly limit
RECURSIVE EntriesFrom(_, _, _, _, _, _)
EntriesFrom(author, ops, i, offset, limit, res) ==
    IF i > Len(ops) THEN res
    ELSE IF offset > 0 THEN EntriesFrom(author, ops, i + 1, offset - 1, limit, res)
    ELSE LET more == Append(res, logEntryFromOp(author, ops[i])) IN
         IF Len(more) = limit THEN more
         ELSE EntriesFrom(author, ops, i + 1, offset, limit, more)

LogEntries(ls, ref, offset, limit) ==
    LET l == BranchRef(ls, ref) IN
    IF l.err # "nil" THEN [err |-> l.err, entries |-> <<>>]
    ELSE [err |-> "nil",
          entries |-> EntriesFrom(ref.Username, LogAt(ls, l.path).ops, 1, offset,
                                  limit, <<>>)]

-----------------------------------------------------------------------------
(* Package cron: jobs are kept in a store by name; every tick of Start lists  *)
(* the stored jobs and starts a goroutine for each, which runs the job when  *)
(* it is due and puts it back into the store when the runner has returned.   *)

\* Schedule: job.Validate passes and the job is put into the store.  No job
\* is scheduled anew under a name that was unscheduled.
Schedule(j) ==
    /\ j \notin cron.unscheduled
    /\ cron' = [cron EXCEPT !.store = @ \cup {j}]
    /\ UNCHANGED <<bookVars, stream>>

\* Start, case <-t.C: the jobs of the store are listed and go c.maybeRunJob is
\* started for each, holding the job as it was listed
CronTick ==
    /\ cron.store # {}
    /\ \A j \in cron.store : cron.pending[j] + cron.running[j] < MaxRuns
    /\ cron' = [cron EXCEPT !.pending =
                    [j \in StoredNames |-> IF j \in cron.store THEN @[j] + 1 ELSE @[j]]]
    /\ UNCHANGED <<bookVars, stream>>

\* maybeRunJob: runJob calls the runner when the job's next execution is past
maybeRunJob(j, due) ==
    /\ cron.pending[j] > 0
    /\ cron' = [cron EXCEPT !.pending[j] = @ - 1,
                            !.running[j] = IF due THEN @ + 1 ELSE @]
    /\ UNCHANGED <<bookVars, stream>>

\* runJob, once the runner has returned: LastError and LastRun are set on the
\* job held and c.store.PutJob stores it
runJob(j) ==
    /\ cron.running[j] > 0
    /\ cron' = [cron EXCEPT !.running[j] = @ - 1, !.store = @ \cup {j}]
    /\ UNCHANGED <<bookVars, stream>>

\* Unschedule: c.store.DeleteJob; the call succeeds for a job the store holds
Unschedule(j) ==
    /\ j \in cron.store
    /\ cron' = [cron EXCEPT !.store = @ \ {j}, !.unscheduled = @ \cup {j}]
    /\ UNCHANGED <<bookVars, stream>>

\* the answer of a handler: the first WriteHeader decides the status, and a
\* handler that writes no header answers 200
Answer(method, decoded, status) ==
    [method |-> method, decoded |-> decoded, status |-> status,
     turn |-> ~cron.http.turn]

\* jobsHandler, case "POST": a body that cannot be read is answered 400 and the
\* handler returns.  A body that fails to unmarshal is answered 400 too, but
\* the handler goes on to c.store.PutJob with the job as the failed
\* UnmarshalFlatbuffer left it: some of its fields set (partial) or none.
PostJob(j, readOK, decodes, partial, putOK) ==
    LET name == IF decodes \/ partial THEN j ELSE NoName
        first == IF decodes THEN StatusOK ELSE StatusBadRequest
    IN  /\ name \notin cron.unscheduled
        /\ cron' =
             IF ~readOK
             THEN [cron EXCEPT !.http = Answer("POST", FALSE, StatusBadRequest)]
             ELSE IF putOK
             THEN [cron EXCEPT !.store = @ \cup {name},
                               !.http = Answer("POST", decodes, first)]
             ELSE [cron EXCEPT !.http = Answer("POST", decodes,
                                   IF decodes THEN StatusInternalServerError
                                   ELSE StatusBadRequest)]
        /\ UNCHANGED <<bookVars, stream>>

\* jobsHandler, case "DELETE": c.Unschedule(name); an error is answered 500
DeleteJob(j) ==
    /\ cron' =
         IF j \in cron.store
         THEN [cron EXCEPT !.store = @ \ {j}, !.unscheduled = @ \cup {j},
                           !.http = Answer("DELETE", TRUE, StatusOK)]
         ELSE [cron EXCEPT !.http = Answer("DELETE", TRUE, StatusInternalServerError)]
    /\ UNCHANGED <<bookVars, stream>>

\* jobsHandler, case "GET": the jobs of the store are written, nothing changes
GetJobs ==
    /\ cron' = [cron EXCEPT !.http = Answer("GET", TRUE, StatusOK)]
    /\ UNCHANGED <<bookVars, stream>>

CronInit == NewBook([faulty |-> FALSE, cap |-> MaxBookOps])

CronNext ==
    \/ \E j \in JobNames : Schedule(j)
    \/ CronTick
    \/ \E j \in StoredNames, due \in BOOLEAN : maybeRunJob(j, due)
    \/ \E j \in StoredNames : runJob(j)
    \/ \E j \in StoredNames : Unschedule(j)
    \/ \E j \in JobNames, readOK, decodes, partial, putOK \in BOOLEAN :
            PostJob(j, readOK, decodes, partial, putOK)
    \/ \E j \in StoredNames : DeleteJob(j)
    \/ GetJobs

CronSpec == CronInit /\ [][CronNext]_vars

-----------------------------------------------------------------------------
(* Package p2p: a request and its reply over a stream.  The side that opens  *)
(* the stream is this node's SendMessage or a peer speaking the protocol;    *)
(* the other side serves the stream with MessageStreamHandler.               *)

Message(msg, hangUp) == [Msg |-> msg, HangUp |-> hangUp]

\* SendMessage up to WrapStream: PeerIdForMultiaddr or Host.NewStream may fail
\* and end the call; otherwise the stream is open and the peer's handler runs
SendMessage(s, outcome) ==
    /\ stream[s].sender = "idle"
    /\ stream' = [stream EXCEPT ![s] =
            IF outcome = "ok"
            THEN [@ EXCEPT !.by = "SendMessage", !.sender = "opened",
                           !.handler = "receiving"]
            ELSE [@ EXCEPT !.by = "SendMessage", !.sender = "returned",
                           !.err = outcome]]
    /\ UNCHANGED <<bookVars, cron>>

\* sendMessage(&Message{Msg: msg, HangUp: true}, wrappedStream)
SenderSend(s, msg) ==
    /\ stream[s].by = "SendMessage"
    /\ stream[s].sender = "opened"
    /\ stream' = [stream EXCEPT ![s].wire = Append(@, Message(msg, TRUE)),
                                ![s].sender = "awaiting"]
    /\ UNCHANGED <<bookVars, cron>>

\* a peer opens a stream to the handler and writes a message of its own
PeerRequest(s, msg, hangUp) ==
    /\ stream[s].sender = "idle"
    /\ stream' = [stream EXCEPT ![s] =
            [@ EXCEPT !.by = "peer", !.sender = "awaiting", !.handler = "receiving",
                      !.wire = <<Message(msg, hangUp)>>]]
    /\ UNCHANGED <<bookVars, cron>>

\* handleStream, receiveMessage: a message with HangUp set ends the loop, and
\* so does the end of the stream; MessageStreamHandler then closes the stream
HandlerReceive(s) ==
    /\ stream[s].handler = "receiving"
    /\ \/ /\ stream[s].wire # <<>>
          /\ stream' = [stream EXCEPT
                ![s].wire = Tail(@),
                ![s].handler = IF Head(stream[s].wire).HangUp THEN "closed"
                               ELSE "replying"]
       \/ /\ stream[s].wire = <<>>
          /\ stream[s].sender = "returned"
          /\ stream' = [stream EXCEPT ![s].handler = "closed"]
    /\ UNCHANGED <<bookVars, cron>>

\* handleStream, sendMessage(&Message{Msg: "ok", HangUp: true}, ws)
HandlerReply(s) ==
    /\ stream[s].handler = "replying"
    /\ stream' = [stream EXCEPT ![s].back = Append(@, Message("ok", TRUE)),
                                ![s].handler = "receiving"]
    /\ UNCHANGED <<bookVars, cron>>

\* receiveMessage on the opening side: the reply, or the error of a stream the
\* handler has closed; either way the call returns and closes the stream
SenderReceive(s) ==
    /\ stream[s].sender = "awaiting"
    /\ \/ /\ stream[s].back # <<>>
          /\ stream' = [stream EXCEPT ![s].back = Tail(@),
                                      ![s].res = Head(stream[s].back).Msg,
                                      ![s].err = "nil",
                                      ![s].sender = "returned"]
       \/ /\ stream[s].back = <<>>
          /\ stream[s].handler = "closed"
          /\ stream' = [stream EXCEPT ![s].err = "EOF", ![s].sender = "returned"]
    /\ UNCHANGED <<bookVars, cron>>

Msgs == {"ping", "list"}

StreamInit == NewBook([faulty |-> FALSE, cap |-> MaxBookOps])

StreamNext ==
    \/ \E s \in Streams, o \in {"ok", "PeerIdError", "StreamError"} : SendMessage(s, o)
    \/ \E s \in Streams, m \in Msgs : SenderSend(s, m)
    \/ \E s \in Streams, m \in Msgs, h \in BOOLEAN : PeerRequest(s, m, h)
    \/ \E s \in Streams : HandlerReceive(s)
    \/ \E s \in Streams : HandlerReply(s)
    \/ \E s \in Streams : SenderReceive(s)

StreamSpec == StreamInit /\ [][StreamNext]_vars

-----------------------------------------------------------------------------
(* Helpers of the properties *)

\* every log of ls with all its descendants
RECURSIVE LogsIn(_)
LogsIn(ls) ==
    UNION { {ls[i]} \cup LogsIn(ls[i].logs) : i \in 1 .. Len(ls) }

Reverse(seq) == [k \in 1 .. Len(seq) |-> seq[Len(seq) + 1 - k]]

\* the branch ops a reference resolves to
BranchOps(ref) == LogAt(logs, BranchRef(logs, ref).path).ops

Resolves(ref) == BranchRef(logs, ref).err = "nil"

\* The reference replay of a branch: the list of entries after the ops from
\* position i on, or the transition that cannot be made
\*   version/init pushes, version/amend replaces the last entry,
\*   version/remove n drops the last n, publication/init and
\*   publication/remove n flag the last n, anything else leaves the list alone
\* A count larger than the list cannot be replayed.  An amend of an empty list
\* cannot be replayed either when strict; otherwise it has no entry to replace
\* and leaves the list empty.
RefEntry(ref, op, published) ==
    [Ref |-> [Username |-> ref.Username, Name |-> ref.Name, Path |-> op.ref],
     Published |-> published, Timestamp |-> op.timestamp,
     CommitTitle |-> op.note, Size |-> op.size]

Flagged(list, n, flag) ==
    SubSeq(list, 1, Len(list) - n) \o
    [k \in 1 .. n |-> [list[Len(list) - n + k] EXCEPT !.Published = flag]]

RECURSIVE RefReplay(_, _, _, _, _)
RefReplay(ref, ops, i, list, strict) ==
    IF i > Len(ops) THEN [ok |-> TRUE, list |-> list, why |-> ""]
    ELSE LET op == ops[i]
             kind == <<op.model, op.type>>
         IN  CASE kind = <<versionModel, OpTypeInit>> ->
                    RefReplay(ref, ops, i + 1, list \o <<RefEntry(ref, op, FALSE)>>,
                              strict)
               [] kind = <<versionModel, OpTypeAmend>> ->
                    IF list = <<>>
                    THEN IF strict THEN [ok |-> FALSE, list |-> <<>>, why |-> "amend"]
                         ELSE RefReplay(ref, ops, i + 1, list, strict)
                    ELSE RefReplay(ref, ops, i + 1,
                            SubSeq(list, 1, Len(list) - 1) \o <<RefEntry(ref, op, FALSE)>>,
                            strict)
               [] kind = <<versionModel, OpTypeRemove>> ->
                    IF op.size > Len(list)
                    THEN [ok |-> FALSE, list |-> <<>>, why |-> "remove"]
                    ELSE RefReplay(ref, ops, i + 1,
                                   SubSeq(list, 1, Len(list) - op.size), strict)
               [] kind = <<publicationModel, OpTypeInit>> ->
                    IF op.size > Len(list)
                    THEN [ok |-> FALSE, list |-> <<>>, why |-> "publish"]
                    ELSE RefReplay(ref, ops, i + 1, Flagged(list, op.size, TRUE), strict)
               [] kind = <<publicationModel, OpTypeRemove>> ->
                    IF op.size > Len(list)
                    THEN [ok |-> FALSE, list |-> <<>>, why |-> "publish"]
                    ELSE RefReplay(ref, ops, i + 1, Flagged(list, op.size, FALSE), strict)
               [] OTHER -> RefReplay(ref, ops, i + 1, list, strict)

Reference(ref) == RefReplay(ref, BranchOps(ref), 1, <<>>, TRUE)

CountsOnly(ref) == RefReplay(ref, BranchOps(ref), 1, <<>>, FALSE)

-----------------------------------------------------------------------------
(* Properties *)

\* a branch as WriteVersionSave creates it: the save follows the branch's init
SavedFirst(ref) ==
    /\ Len(BranchOps(ref)) >= 2
    /\ BranchOps(ref)[2].model = versionModel
    /\ BranchOps(ref)[2].type = OpTypeInit

Sorted(ops) ==
    \A i \in 1 .. Len(ops) - 1 : ops[i].timestamp <= ops[i + 1].timestamp

\* C2: after any sequence of write verbs the ops of every log of the book have
\* non-decreasing timestamps in insertion order.
C2_TimestampsNonDecreasing == \A lg \in LogsIn(logs) : Sorted(lg.ops)

\* a log of three ops or more with a later last timestamp, after a
\* WriteVersionDelete whose op, stamped 0, came too early for it
C2_Witness ==
    /\ last.verb = "WriteVersionDelete"
    /\ last.app = "refused"
    /\ \E lg \in LogsIn(logs) :
          /\ Len(lg.ops) >= 3
          /\ lg.ops[1].timestamp < lg.ops[Len(lg.ops)].timestamp

\* C3: an append whose timestamp is before the log's last op is rejected with
\* InvalidTimestamp; the write verb that made the append reports it.
C3_RefusedAppendIsReported == last.app = "refused" => last.err = "InvalidTimestamp"

MutatingVerbs ==
    {"WriteNameInit", "WriteNameAmend", "WriteVersionSave", "WriteVersionAmend",
     "WriteVersionDelete", "WritePublish", "WriteUnpublish", "WriteCronJobRan",
     "MergeLog", "RemoveLog", "ConstructDatasetLog"}

\* UnmarshalFlatbufferCipher: decrypting takes the key the blob was written with
UnmarshalFlatbufferCipher(blob, key) ==
    IF blob = NoBlob THEN [err |-> "ErrNotFound", logs |-> <<>>]
    ELSE IF blob.key # key THEN [err |-> "DecryptFailed", logs |-> <<>>]
    ELSE [err |-> "nil", logs |-> blob.logs]

Stored == UnmarshalFlatbufferCipher(FsGet(fsPath, fsBlob, fsLocation), KeyID)

-----------------------------------------------------------------------------
(* Closing the book and opening it again with NewBook *)

Keys == {KeyID, OtherKeyID}

NameOfKey(key) == IF key = KeyID THEN AuthorName ELSE "bob"

\* the value of the book's fields when NewBook has returned no book
NoAuthor == Op(OpTypeInit, authorModel, "", "", 0, "", "", 0, "", <<>>)

Open == logs # <<>>

\* a location nothing is stored at
EmptyLocation == "loc0"

OpenCall(key, location, err, fresh) ==
    [Call("NewBook", err, NoRef, location, "none", fresh) EXCEPT !.sender = key]

\* fresh state written whatever made the load fail
InitInstead(key, location, err) ==
    LET userActions == InitLog(Op(OpTypeInit, authorModel, NameOfKey(key), key,
                                  0, "", "", 0, "", <<>>))
        ciphertext == FlatbufferCipher(<<userActions>>, LogID(userActions))
    IN  /\ logs' = <<userActions>>
        /\ authorID' = LogID(userActions)
        /\ fsBlob' = ciphertext
        /\ fsPath' = PutLocation(ciphertext)
        /\ fsLocation' = PutLocation(ciphertext)
        /\ last' = OpenCall(key, location, "nil", TRUE)
        /\ UNCHANGED <<env, cron, stream, pc, cipher>>

\* NewBook returns nil and the error
OpenFailed(key, location, err) ==
    /\ logs' = <<>>
    /\ authorID' = NoAuthor
    /\ fsLocation' = ""
    /\ last' = OpenCall(key, location, err, FALSE)
    /\ UNCHANGED <<fsPath, fsBlob, env, cron, stream, pc, cipher>>

\* the fresh book handed back without having been saved
OpenFreshUnsaved(key, location) ==
    LET userActions == InitLog(Op(OpTypeInit, authorModel, NameOfKey(key), key,
                                  0, "", "", 0, "", <<>>))
    IN  /\ logs' = <<userActions>>
        /\ authorID' = LogID(userActions)
        /\ fsLocation' = location
        /\ last' = OpenCall(key, location, "nil", TRUE)
        /\ UNCHANGED <<fsPath, fsBlob, env, cron, stream, pc, cipher>>

\* load has returned ErrNotFound: initialize appends the author's log of user
\* actions, sets the author id to its id and saves; the clock reads 0.
\* NewBook returns the book together with the error of save.
OpenFresh(key, location) ==
    LET userActions == InitLog(Op(OpTypeInit, authorModel, NameOfKey(key), key,
                                  0, "", "", 0, "", <<>>))
        ciphertext == FlatbufferCipher(<<userActions>>, LogID(userActions))
    IN  /\ logs' = <<userActions>>
        /\ authorID' = LogID(userActions)
        /\ \/ /\ fsBlob' = ciphertext
              /\ fsPath' = PutLocation(ciphertext)
              /\ fsLocation' = PutLocation(ciphertext)
              /\ last' = OpenCall(key, location, "nil", TRUE)
           \/ /\ env.faulty
              /\ UNCHANGED <<fsBlob, fsPath>>
              /\ fsLocation' = ""
              /\ last' = OpenCall(key, location, "PutError", TRUE)
        /\ UNCHANGED <<env, cron, stream, pc, cipher>>

\* load has read and decoded the blob: the book holds its logs
OpenLoaded(key, location, blob) ==
    /\ logs' = blob.logs
    /\ authorID' = blob.authorID
    /\ fsLocation' = location
    /\ last' = OpenCall(key, location, "nil", FALSE)
    /\ UNCHANGED <<fsPath, fsBlob, env, cron, stream, pc, cipher>>

\* NewBook(pk, username, fs, location) on the filesystem as it stands;
\* getFails: fs.Get fails with an error that does not say "not found"
Reopen(key, location, getFails) ==
    LET blob == FsGet(fsPath, fsBlob, location) IN
    IF location = "" THEN OpenFailed(key, location, "LocationRequired")
    ELSE IF getFails THEN OpenFailed(key, location, "GetError")
    ELSE IF blob = NoBlob THEN OpenFresh(key, location)
    ELSE LET u == UnmarshalFlatbufferCipher(blob, key) IN
         IF u.err # "nil" THEN OpenFailed(key, location, u.err)
         ELSE OpenLoaded(key, location, blob)

OpenInit == NewBook([faulty |-> FALSE, cap |-> MaxOpenOps])

OpenNext ==
    \/ \E k \in Keys, loc \in {fsPath, EmptyLocation, ""}, f \in BOOLEAN :
          Reopen(k, loc, f)
    \/ \E n \in InitNames, t1, t2 \in Times : Open /\ WriteNameInit(n, t1, t2)
    \/ \E r \in Refs, n \in NewNames, t \in Times : Open /\ WriteNameAmend(r, n, t)
    \/ \E ds \in Datasets, t1, t2 \in Times : Open /\ WriteVersionSave(ds, t1, t2)
    \/ \E r \in Refs, n \in Revs : Open /\ WriteVersionDelete(r, n)

OpenSpec == OpenInit /\ [][OpenNext]_vars

\* C4: right after a mutating verb has returned without error, the blob at the
\* book's location decodes to the book's in-memory logs.
C4_SuccessMeansPersisted ==
    (last.verb \in MutatingVerbs /\ last.err = "nil") =>
        (Stored.err = "nil" /\ Stored.logs = logs)

\* C5: when the branch log holds a version/remove op larger than the number of
\* versions present at that point, Versions reports CorruptLog to its caller.
C5_OversizeRemoveIsCorruptLog ==
    \A ref \in Refs :
        (Resolves(ref) /\ Reference(ref).why = "remove") =>
            \A offset, limit \in 0 .. 1 :
                /\ Versions(logs, ref, offset, limit).status = "error"
                /\ Versions(logs, ref, offset, limit).err = "CorruptLog"

\* C6: when the branch log holds a version/amend op at a point where no
\* version exists, Versions reports CorruptLog to its caller.
C6_AmendOfNothingIsCorruptLog ==
    \A ref \in Refs :
        (Resolves(ref) /\ Reference(ref).why = "amend") =>
            \A offset, limit \in 0 .. 1 :
                /\ Versions(logs, ref, offset, limit).status = "error"
                /\ Versions(logs, ref, offset, limit).err = "CorruptLog"

\* C7: within any log no two direct children share the same (model, name).
C7_ChildrenHaveDistinctNames ==
    \A lg \in LogsIn(logs) :
        \A i, j \in 1 .. Len(lg.logs) :
            (i # j) =>
                <<LogModel(lg.logs[i]), LogName(lg.logs[i])>> #
                <<LogModel(lg.logs[j]), LogName(lg.logs[j])>>

\* C8: after WriteVersionSave has succeeded for a dataset whose branch did not
\* exist, BranchRef of the dataset's reference succeeds and Versions of that
\* reference holds the saved version, whatever username the dataset carries.
C8_SavedBranchResolves ==
    (last.verb = "WriteVersionSave" /\ last.err = "nil" /\ last.created) =>
        LET ref == Ref(last.user, last.name)
            got == Versions(logs, ref, 0, MaxWriteOps)
        IN  /\ Resolves(ref)
            /\ got.status = "ok"
            /\ \E k \in 1 .. Len(got.refs) : got.refs[k].Ref.Path = last.path

\* C9: two mutating verbs invoked concurrently on one Book are serialised, the
\* persistence write included: once both have returned, the blob at the stored
\* location holds the logs with the ops of both.
C9_ConcurrentVerbsBothPersisted ==
    (\A p \in Callers : pc[p] = "done") =>
        (Stored.err = "nil" /\ Stored.logs = logs)

MergesInto(i) ==
    /\ last'.verb = "MergeLog"
    /\ last'.signed
    /\ i # 0
    /\ i = LogByID(logs, LogID(last'.lg))

\* C11: MergeLog of a remote log with the id of a local log, at least as long
\* and different from it at some position of the common prefix, returns
\* DivergentHistory to its caller and leaves the local log unchanged.
C11_DivergentMergeIsReported ==
    [][ \A i \in 1 .. Len(logs) :
          (/\ MergesInto(i)
           /\ Len(last'.lg.ops) >= Len(logs[i].ops)
           /\ ~IsPrefix(logs[i].ops, last'.lg.ops))
          => /\ last'.err = "DivergentHistory"
             /\ logs' = logs ]_vars

\* C12: MergeLog of a remote log with fewer ops than the local log of its id
\* is rejected with LogTooShort and changes neither the logs in memory nor the
\* stored blob.
C12_ShortMergeIsRejected ==
    [][ \A i \in 1 .. Len(logs) :
          (MergesInto(i) /\ Len(last'.lg.ops) < Len(logs[i].ops))
          => /\ last'.err = "ErrLogTooShort"
             /\ logs' = logs
             /\ fsBlob' = fsBlob ]_vars

\* C13: when the remote log's signature does not verify against the sender's
\* public key, MergeLog returns an error, the book's logs are unchanged and
\* nothing is written to the filesystem.
C13_UnverifiedMergeChangesNothing ==
    [][ (last'.verb = "MergeLog" /\ ~last'.signed)
        => /\ last'.err # "nil"
           /\ logs' = logs
           /\ UNCHANGED <<fsBlob, fsPath, fsLocation>> ]_vars

\* a remote that would extend the author's log has been turned away for its
\* signature, in a book two logs long
C13_Witness ==
    /\ last.verb = "MergeLog"
    /\ ~last.signed
    /\ last.err = "SignatureInvalid"
    /\ Len(logs) = 2
    /\ LogID(last.lg) = LogID(logs[1])
    /\ Len(last.lg.ops) > Len(logs[1].ops)

C15_TopLevelIdsDistinct ==
    \A i, j \in 1 .. Len(logs) : (i # j) => LogID(logs[i]) # LogID(logs[j])

\* two top-level logs, the last call a merge into the one that was found
C15_Witness ==
    /\ Len(logs) = 2
    /\ last.verb = "MergeLog"
    /\ last.err = "nil"
    /\ LogID(last.lg) = LogID(logs[1])
    /\ Len(logs[1].ops) = 2

\* the reference a call of RemoveLog was made with
RemovedRef(call) == Ref(call.user, call.name)

\* C16: RemoveLog by a sender whose author id is not the id of the root log
\* holding the referenced branch returns an error and changes neither the
\* book's logs nor the stored blob.
C16_RemoveByOtherAuthorIsRefused ==
    [][ (/\ last'.verb = "RemoveLog"
         /\ BranchRef(logs, RemovedRef(last')).err = "nil"
         /\ IDTag(LogID(logs[BranchRef(logs, RemovedRef(last')).path[1]]))
                # last'.sender)
        => /\ last'.err # "nil"
           /\ logs' = logs
           /\ UNCHANGED <<fsBlob, fsPath, fsLocation>> ]_vars

\* another author has asked for the removal of a dataset log that holds a
\* version; the log is still there
C16_Witness ==
    /\ last.verb = "RemoveLog"
    /\ last.sender = IDTag(InitB)
    /\ last.err = NotOwner
    /\ Resolves(RemovedRef(last))
    /\ Len(BranchOps(RemovedRef(last))) >= 2

WriteVerbs ==
    {"WriteNameInit", "WriteNameAmend", "WriteVersionSave", "WriteVersionAmend",
     "WriteVersionDelete", "WritePublish", "WriteUnpublish", "WriteCronJobRan"}

\* the ids of the dataset logs held anywhere in ls
DatasetLogIDs(ls) == { LogID(lg) : lg \in { l \in LogsIn(ls) : LogModel(l) = nameModel } }

\* C17: every dataset log stays in the book through the write verbs, and once
\* RemoveLog has succeeded for a reference, BranchRef of that reference fails
\* with not-found.
C17_RemovedOnlyByRemoveLog ==
    [][ /\ (last'.verb \in WriteVerbs) =>
                DatasetLogIDs(logs) \subseteq DatasetLogIDs(logs')
        /\ (last'.verb = "RemoveLog" /\ last'.err = "nil") =>
                BranchRef(logs', RemovedRef(last')).err = "ErrNotFound" ]_vars

\* every log of old is found at its place in new with its ops as a prefix
RECURSIVE Extends(_, _)
Extends(old, new) ==
    /\ Len(old) <= Len(new)
    /\ \A i \in 1 .. Len(old) :
          /\ IsPrefix(old[i].ops, new[i].ops)
          /\ Extends(old[i].logs, new[i].logs)

\* C18: logs are append-only: every write verb and every successful MergeLog
\* leaves the ops each log held as a prefix of the ops it holds afterwards,
\* and an amend or a delete that succeeds adds one op.
C18_LogsAreAppendOnly ==
    [][ (last'.verb \in (WriteVerbs \cup {"MergeLog"}) /\ last'.err = "nil")
        => /\ Extends(logs, logs')
           /\ (last'.verb \in {"WriteVersionAmend", "WriteVersionDelete"})
              => TotalOps(logs') = TotalOps(logs) + 1 ]_vars

\* C19: the op appended by WriteVersionAmend carries the dataset's structure
\* length as its size, as the op of WriteVersionSave does; after a version has
\* been saved and amended with a dataset of length s, the single entry of
\* Versions has size s.
C19_AmendCarriesSize ==
    (last.verb = "WriteVersionAmend" /\ last.err = "nil" /\ last.app = "accepted") =>
        LET ref == Ref(last.user, last.name)
            ops == BranchOps(ref)
            got == Versions(logs, ref, 0, MaxPage)
        IN  /\ ops[Len(ops)].size = LengthOf(last.path)
            /\ (got.status = "ok" /\ Len(got.refs) = 1) =>
                  got.refs[1].Size = LengthOf(last.path)

Pages == 0 .. MaxPage

Least(a, b) == IF a < b THEN a ELSE b

\* C20: for every offset >= 0 and limit >= 0, Versions returns at most limit
\* entries: those of the newest-first order (the reverse of the replay) from
\* position offset on.
C20_VersionsPageIsNewestFirst ==
    \A ref \in Refs :
        (Resolves(ref) /\ Reference(ref).ok) =>
            \A offset, limit \in Pages :
                LET all == Reverse(Reference(ref).list)
                    got == Versions(logs, ref, offset, limit)
                IN  /\ got.status = "ok"
                    /\ Len(got.refs) <= limit
                    /\ got.refs = SubSeq(all, offset + 1,
                                         Least(Len(all), offset + limit))

\* three versions, of which offset 1 and limit 1 return the middle one alone
C20_Witness ==
    \E ref \in Refs :
        /\ Resolves(ref)
        /\ Reference(ref).ok
        /\ Len(Reference(ref).list) = 3
        /\ Reference(ref).list[1] # Reference(ref).list[2]
        /\ Reference(ref).list[2] # Reference(ref).list[3]
        /\ Versions(logs, ref, 1, 1).refs = <<Reference(ref).list[2]>>

\* offsets and limits, one below zero included
SignedPages == (0 - 1) .. MaxPage

\* C21: Versions called with a negative offset or a negative limit returns an
\* error to its caller: it neither returns a result nor aborts.
C21_NegativePageIsRejected ==
    \A ref \in Refs :
        (Resolves(ref) /\ Reference(ref).ok) =>
            \A offset, limit \in SignedPages :
                (offset < 0 \/ limit < 0) =>
                    Versions(logs, ref, offset, limit).status = "error"

\* C22: Versions called with an offset equal to or greater than the number of
\* current versions returns an empty list and no error, for every limit >= 0.
C22_OffsetPastEndIsEmpty ==
    \A ref \in Refs :
        (Resolves(ref) /\ Reference(ref).ok) =>
            \A offset, limit \in Pages :
                (offset >= Len(Reference(ref).list)) =>
                    Versions(logs, ref, offset, limit) =
                        [status |-> "ok", err |-> "nil", refs |-> <<>>]

\* two versions: offset 1 still yields the oldest, offsets 2 and 3 nothing
C22_Witness ==
    \E ref \in Refs :
        /\ Resolves(ref)
        /\ Reference(ref).ok
        /\ Len(Reference(ref).list) = 2
        /\ Versions(logs, ref, 1, 1).refs = <<Reference(ref).list[1]>>
        /\ Versions(logs, ref, 2, 1).refs = <<>>
        /\ Versions(logs, ref, MaxPage, 1).refs = <<>>

\* C23: ConstructDatasetLog for a reference whose branch log exists returns
\* LogTooShort and changes nothing: no log is created, no op is appended and
\* nothing is written to the filesystem.
C23_ConstructOnExistingIsRefused ==
    [][ (/\ last'.verb = "ConstructDatasetLog"
         /\ BranchRef(logs, Ref(last'.user, last'.name)).err = "nil")
        => /\ last'.err = "ErrLogTooShort"
           /\ logs' = logs
           /\ UNCHANGED <<fsBlob, fsPath, fsLocation>> ]_vars

\* a construction has been turned away from a branch that holds a version
C23_Witness ==
    /\ last.verb = "ConstructDatasetLog"
    /\ last.err = "ErrLogTooShort"
    /\ Len(BranchOps(Ref(last.user, last.name))) >= 2
    /\ TotalOps(logs) = 4

\* the step is a call of NewBook that went through and found nothing stored
\* at the location it was given
OpensAtNothing ==
    /\ last'.verb = "NewBook"
    /\ last'.err = "nil"
    /\ FsGet(fsPath, fsBlob, last'.path) = NoBlob

\* C24: NewBook at a location where the filesystem holds nothing yields a book
\* with exactly one top-level log, an author-model log whose single op has
\* type init, with the book's author id the id of that log, and the book is
\* stored before NewBook returns.
C24_NewBookInitializesOneAuthorLog ==
    [][ OpensAtNothing =>
          /\ Len(logs') = 1
          /\ LogModel(logs'[1]) = authorModel
          /\ Len(logs'[1].ops) = 1
          /\ logs'[1].ops[1].type = OpTypeInit
          /\ logs'[1].logs = <<>>
          /\ authorID' = LogID(logs'[1])
          /\ UnmarshalFlatbufferCipher(FsGet(fsPath', fsBlob', fsLocation'),
                                       last'.sender)
                = [err |-> "nil", logs |-> logs'] ]_vars

\* a book that held a dataset has been closed and a fresh one opened at an
\* empty location with the other key
C24_Witness ==
    /\ last.verb = "NewBook"
    /\ last.err = "nil"
    /\ last.created
    /\ last.path = EmptyLocation
    /\ last.sender = OtherKeyID
    /\ Len(logs) = 1
    /\ fsBlob.logs = logs

\* C25: NewBook at a location holding a blob that does not decrypt or decode
\* under the key given returns an error and no book and leaves the stored blob
\* as it is; fresh state is initialized only when the filesystem reports that
\* nothing is found.
C25_UndecodableBlobIsNotReplaced ==
    [][ /\ (/\ last'.verb = "NewBook"
            /\ FsGet(fsPath, fsBlob, last'.path) # NoBlob
            /\ UnmarshalFlatbufferCipher(FsGet(fsPath, fsBlob, last'.path),
                                         last'.sender).err # "nil")
           => /\ last'.err # "nil"
              /\ logs' = <<>>
              /\ UNCHANGED <<fsBlob, fsPath>>
        /\ (last'.verb = "NewBook" /\ last'.created)
           => FsGet(fsPath, fsBlob, last'.path) = NoBlob ]_vars

\* the stored book holds a dataset with a version and the other key has just
\* failed to open it
C25_Witness ==
    /\ last.verb = "NewBook"
    /\ last.err = "DecryptFailed"
    /\ last.sender = OtherKeyID
    /\ ~Open
    /\ fsBlob.key = KeyID
    /\ TotalOps(fsBlob.logs) = 4

\* C26: a book reopened by NewBook with the same key at the book's stored
\* location, the filesystem answering, returns from Versions, for every reference, offset and limit, what
\* the book returned before it was closed.
C26_ReopenedBookHasSameVersions ==
    [][ (/\ last'.verb = "NewBook"
         /\ Open
         /\ last'.sender = authorID.authorID
         /\ fsLocation # ""
         /\ last'.path = fsLocation
         /\ last'.err # "GetError")
        => /\ last'.err = "nil"
           /\ \A ref \in Refs : \A offset, limit \in Pages :
                 Versions(logs', ref, offset, limit) =
                     Versions(logs, ref, offset, limit) ]_vars

\* C27: when a mutating verb is cancelled before the blob has been handed to
\* the filesystem, so that fs.Put returns the error and stores nothing, the
\* book's logs are what they were before the verb was called.
C27_CancelledVerbIsRolledBack ==
    [][ (last'.verb \in MutatingVerbs /\ last'.err = "PutError")
        => logs' = logs ]_vars

\* the entry LogEntries is to give for an op: its timestamp, the reference's
\* username, the action of its (model, type) pair and its note or else name
EntryOf(ref, op) ==
    [Timestamp |-> op.timestamp, Author |-> ref.Username,
     Action |-> actionStrings(op.model)[op.type],
     Note |-> IF op.note # "" THEN op.note ELSE op.name]

\* C28: for every offset >= 0 and limit >= 0, LogEntries returns in insertion
\* order exactly the entries of the branch ops at positions offset up to but
\* excluding min(offset + limit, number of ops).
C28_LogEntriesIsPaginated ==
    \A ref \in Refs :
        Resolves(ref) =>
            \A offset, limit \in Pages :
                LET ops == BranchOps(ref)
                    upto == Least(offset + limit, Len(ops))
                IN  LogEntries(logs, ref, offset, limit) =
                        [err |-> "nil",
                         entries |-> [k \in 1 .. (upto - offset) |->
                                         EntryOf(ref, ops[offset + k])]]

\* C29: once Unschedule(name) has returned success, the job store holds no
\* job of that name and the runner is not started for it again, an execution
\* in progress while Unschedule ran included.
C29_UnscheduledJobStaysCancelled ==
    [][ \A j \in cron'.unscheduled :
          /\ j \notin cron'.store
          /\ (j \in cron.unscheduled) => cron'.running[j] <= cron.running[j] ]_vars

\* C30: a request sent with SendMessage over a stream that the peer serves
\* with MessageStreamHandler returns the peer's reply and no error.
C30_SendMessageReturnsReply ==
    \A s \in Streams :
        (/\ stream[s].by = "SendMessage"
         /\ stream[s].handler # "none"
         /\ stream[s].sender = "returned")
        => /\ stream[s].err = "nil"
           /\ stream[s].res = "ok"

\* C31: at most one execution of a given cron job is in progress at any time:
\* no tick starts the runner for a job whose previous execution has not ended.
C31_OneExecutionPerJob ==
    \A j \in StoredNames : cron.running[j] <= 1

\* C32: a POST to /jobs whose body fails to unmarshal into a Job is answered
\* with a bad-request status and leaves the job store unchanged.
C32_UndecodedPostStoresNothing ==
    [][ (/\ cron'.http.turn # cron.http.turn
         /\ cron'.http.method = "POST"
         /\ ~cron'.http.decoded)
        => (/\ cron'.http.status = StatusBadRequest
            /\ cron'.store = cron.store) ]_vars

\* C33: when the filesystem put fails during a save, the write verb returns
\* the put's error and the book's stored location keeps the value it had.
C33_FailedPutKeepsLocation ==
    [][ (last'.verb \in MutatingVerbs /\ last'.err = "PutError")
        => fsLocation' = fsLocation ]_vars

====
